---- MODULE Spec2Model ----
(***************************************************************************)
(* Model of hampusn/traversal-builder: the fluent Builder (lib/builder.js) *)
(* and the Traversal engine (lib/traversal.js).  The recursion of          *)
(* Traversal._traverse is unfolded into an explicit call stack, one frame  *)
(* per invocation, each frame holding the position reached in the body.    *)
(***************************************************************************)
EXTENDS Integers, Sequences, FiniteSets, TLC

VARIABLES builder,    \* the fields of the singleton Builder
          trav,       \* the Traversal instances built so far, in build order
          stack,      \* the active _traverse invocations, innermost last
          log,        \* what the current traverse call did, in order
          outcome,    \* how the latest traverse call stands
          root,       \* the value the current traverse call was given
          startLevel, \* level of the walking instance when traverse was called
          stale,      \* whether the traverse call just made found a set break
                      \* flag or a count > 0 (kept until its first step)
          broke,      \* where in the current walk break() was first called
          buildError, \* message of the Error the latest build() threw, or "none"
          failed,     \* the builder as the latest build() that threw found it,
                      \* kept while the use-site goes on configuring and building
          setterCalls,\* number of calls made to the setters of the optional settings
          prev,       \* what the use-site noted of the traverse call before the
                      \* current one, where it compares consecutive calls
          caller      \* an array the use-site holds and passes to the type-list
                      \* setters: its contents, and the builder fields that
                      \* refer to this very array

vars == <<builder, trav, stack, log, outcome, root, startLevel, stale, broke,
          buildError, failed, setterCalls, prev, caller>>

-----------------------------------------------------------------------------
(* Bounds of the model.                                                    *)

\* A traverse call of the use-site has at most this many traverse calls made
\* from inside its callbacks.
MaxReentries == 1

\* The setters of the optional settings are called at most this many times.
MaxSetterCalls == 2
\* traverse is not called on an instance whose level has drifted above this.
MaxStartLevel == 1

-----------------------------------------------------------------------------
(* JavaScript values that the limits can hold: null, NaN or an integer.    *)

Null == [k |-> "null", v |-> 0]
NaN == [k |-> "NaN", v |-> 0]
Int_(n) == [k |-> "int", v |-> n]

IsInt(x) == x.k = "int"

\* !x for one of these values: null, NaN and 0 are falsy.
Falsy(x) == x.k # "int" \/ x.v = 0

\* a <= x for an integer a: any comparison with NaN is false, null converts to 0.
LeqJs(a, x) ==
  CASE x.k = "int" -> a <= x.v
    [] x.k = "null" -> a <= 0
    [] OTHER -> FALSE

\* x > 0
PositiveJs(x) == x.k = "int" /\ x.v > 0

\* a >= x for an integer a.
GeqJs(a, x) ==
  CASE x.k = "int" -> a >= x.v
    [] x.k = "null" -> a >= 0
    [] OTHER -> FALSE

\* Arguments given to setMaxDepth and to setMaxNodes, and parseInt of each.
DepthArgs == {"0", "1", "2", "abc"}
NodesArgs == {"0", "1", "2", "abc", "-1"}

parseInt(s) ==
  CASE s = "0" -> Int_(0)
    [] s = "1" -> Int_(1)
    [] s = "2" -> Int_(2)
    [] s = "-1" -> Int_(0 - 1)
    [] OTHER -> NaN

-----------------------------------------------------------------------------
(* The node structure that is walked (external to the library).            *)

SITE_PAGE_TYPE == "sv:sitePage"
PAGE_TYPE == "sv:page"
ARCHIVE_TYPE == "sv:archive"
FOLDER_TYPE == "sv:folder"
ARTICLE_TYPE == "sv:article"

\* Values handed to traverse or yielded by a child cursor.  X is not a node.
Values == {"R", "P1", "X", "F1", "A1", "P2"}

\* The check passing every value.
isNode_Always(n) == TRUE

\* instanceTypeUtil.isNode
isNode(n) == n # "X"

\* The primary node type of a node.
PrimaryType(n) ==
  CASE n = "R" -> FOLDER_TYPE
    [] n = "P1" -> PAGE_TYPE
    [] n = "F1" -> FOLDER_TYPE
    [] n = "A1" -> ARTICLE_TYPE
    [] n = "P2" -> PAGE_TYPE
    [] OTHER -> "none"

\* node.getNodes(): the children, in the order the cursor yields them.
getNodes(n) ==
  CASE n = "R" -> <<"P1", "X", "F1">>
    [] n = "F1" -> <<"A1">>
    [] n = "A1" -> <<"P2">>
    [] OTHER -> <<>>

\* Roots that callers pass to traverse.
Roots == {"R", "X"}

Range(s) == {s[i] : i \in DOMAIN s}

\* nodeTypeUtil.isTypeOf(node, types)
isTypeOf(n, types) == PrimaryType(n) \in Range(types)

-----------------------------------------------------------------------------
(* Builder (lib/builder.js).                                               *)

DEFAULT_RECURSE_TYPES == <<SITE_PAGE_TYPE, PAGE_TYPE, ARCHIVE_TYPE, FOLDER_TYPE>>
DEFAULT_ACCEPT_TYPES == <<PAGE_TYPE, ARTICLE_TYPE>>

\* Values given to the callback setters.  "null" is null, "notAFunction" is a
\* value whose typeof is not 'function', the others are functions.
UserAcceptPredicates == {"isArticle"}
UserRecursePredicates == {"anyNode"}
UserCallbacks == {"cb"}
UserDenyCallbacks == {"deny"}
Functions == UserAcceptPredicates \cup UserRecursePredicates \cup UserCallbacks
               \cup UserDenyCallbacks

\* The test made on truthiness instead of typeof.
IsFunction_Truthy(f) == f \notin {"null", "undefined"}

\* typeof f === 'function'
IsFunction(f) == f \in Functions

\* The result of a user predicate on a node.
ApplyPredicate(p, n) ==
  CASE p = "isArticle" -> PrimaryType(n) = ARTICLE_TYPE
    [] p = "anyNode" -> TRUE
    [] OTHER -> FALSE

\* Arguments given to setRecurseTypes / setAcceptTypes: a single tag or an array.
TypeArgs == { [isArray |-> FALSE, tag |-> ARTICLE_TYPE, array |-> <<>>],
              [isArray |-> TRUE, tag |-> "", array |-> <<>>],
              [isArray |-> TRUE, tag |-> "", array |-> <<FOLDER_TYPE, ARTICLE_TYPE>>] }

\* JSON.stringify(mixed) returns: it throws for a structure that contains
\* itself.  An array of strings always serializes.
Stringifies(mixed) == \A i \in DOMAIN mixed : mixed[i] # "circular"

\* The round trip left out: what is stored is the array that was passed.
castToJsReturnsInput_Always(mixed) == TRUE

\* lines 22-27: castToJs returns the object it was given only from the catch
\* branch; otherwise what JSON.parse made, an object of its own.
castToJsReturnsInput(mixed) == ~Stringifies(mixed)

\* JSON.parse(JSON.stringify(mixed)) of an array of strings: a new array with
\* the same strings, an undefined element becoming null.
castToJs(mixed) ==
  IF Stringifies(mixed)
    THEN [i \in DOMAIN mixed |-> IF mixed[i] = "undefined" THEN "null" ELSE mixed[i]]
    ELSE mixed

\* Array.isArray(types) ? types : [types]
ToArray(arg) == IF arg.isArray THEN arg.array ELSE <<arg.tag>>

NewBuilder ==
  [ recurseTypes |-> DEFAULT_RECURSE_TYPES,
    acceptTypes |-> DEFAULT_ACCEPT_TYPES,
    recurseCallback |-> "null",
    acceptCallback |-> "null",
    callback |-> "null",
    denyCallback |-> "null",
    maxDepth |-> Null,
    maxNodes |-> Int_(0) ]

Idle == stack = <<>>

\* The use-site holds no array that a setter was given.
NoCaller == [array |-> <<>>, shared |-> {}]

NotBroken == [at |-> 0 - 1, node |-> "", pc |-> ""]

\* The record kept of a traverse call ends with the use-site's next call.
ForgetWalk ==
  /\ log' = <<>>
  /\ outcome' = "none"
  /\ root' = ""
  /\ startLevel' = 0
  /\ stale' = FALSE
  /\ broke' = NotBroken
  /\ prev' = <<>>

\* A call by the use-site, between walks, of a setter of an optional setting.
Setter(b) ==
  /\ Idle
  /\ setterCalls < MaxSetterCalls
  /\ setterCalls' = setterCalls + 1
  /\ builder' = b
  /\ ForgetWalk
  /\ UNCHANGED <<trav, stack, buildError, failed, caller>>

setRecurseTypes == \E a \in TypeArgs : Setter([builder EXCEPT !.recurseTypes = castToJs(ToArray(a))])
resetRecurseTypes == Setter([builder EXCEPT !.recurseTypes = DEFAULT_RECURSE_TYPES])
setAcceptTypes == \E a \in TypeArgs : Setter([builder EXCEPT !.acceptTypes = castToJs(ToArray(a))])
resetAcceptTypes == Setter([builder EXCEPT !.acceptTypes = DEFAULT_ACCEPT_TYPES])
setRecurseCallback == \E f \in UserRecursePredicates : Setter([builder EXCEPT !.recurseCallback = f])
clearRecurseCallback == Setter([builder EXCEPT !.recurseCallback = "null"])
setAcceptCallback == \E f \in UserAcceptPredicates : Setter([builder EXCEPT !.acceptCallback = f])
clearAcceptCallback == Setter([builder EXCEPT !.acceptCallback = "null"])
setCallback ==
  \E f \in UserCallbacks :
    /\ Idle
    /\ builder' = [builder EXCEPT !.callback = f]
    /\ ForgetWalk
    /\ UNCHANGED <<trav, stack, buildError, failed, setterCalls, caller>>
setDenyCallback == \E f \in UserDenyCallbacks : Setter([builder EXCEPT !.denyCallback = f])
clearDenyCallback == Setter([builder EXCEPT !.denyCallback = "null"])
setMaxDepth == \E a \in DepthArgs : Setter([builder EXCEPT !.maxDepth = parseInt(a)])
clearMaxDepth == Setter([builder EXCEPT !.maxDepth = Null])
setMaxNodes == \E a \in NodesArgs : Setter([builder EXCEPT !.maxNodes = parseInt(a)])
resetMaxNodes == Setter([builder EXCEPT !.maxNodes = Int_(0)])

\* The chain without its last call, resetMaxNodes().
AllOptionalsReset_KeepsMaxNodes(b) ==
  [b EXCEPT !.recurseTypes = DEFAULT_RECURSE_TYPES,
            !.acceptTypes = DEFAULT_ACCEPT_TYPES,
            !.recurseCallback = "null",
            !.acceptCallback = "null",
            !.denyCallback = "null",
            !.maxDepth = Null]

\* lines 227-234: the chain resetRecurseTypes().resetAcceptTypes()
\* .clearRecurseCallback().clearAcceptCallback().clearDenyCallback()
\* .clearMaxDepth().resetMaxNodes() applied to the builder state b
AllOptionalsReset(b) ==
  [b EXCEPT !.recurseTypes = DEFAULT_RECURSE_TYPES,
            !.acceptTypes = DEFAULT_ACCEPT_TYPES,
            !.recurseCallback = "null",
            !.acceptCallback = "null",
            !.denyCallback = "null",
            !.maxDepth = Null,
            !.maxNodes = Int_(0)]

resetAllOptionals == Setter(AllOptionalsReset(builder))

\* The validation with the predicates left out of the two type-list checks.
BuildFailure_TypesOnly(b) ==
  CASE ~IsFunction(b.callback) -> "Missing callback."
    [] IsFunction(b.callback) /\ Len(b.recurseTypes) = 0 -> "Missing recurse types."
    [] IsFunction(b.callback) /\ Len(b.recurseTypes) # 0 /\ Len(b.acceptTypes) = 0
         -> "Missing accept types."
    [] OTHER -> "none"

\* The validation with a check of the limits added.
BuildFailure_ChecksLimits(b) ==
  CASE ~IsFunction(b.callback) -> "Missing callback."
    [] IsFunction(b.callback) /\ Len(b.recurseTypes) = 0 /\ ~IsFunction(b.recurseCallback)
         -> "Missing recurse types."
    [] IsFunction(b.callback) /\ ~(Len(b.recurseTypes) = 0 /\ ~IsFunction(b.recurseCallback))
         /\ Len(b.acceptTypes) = 0 /\ ~IsFunction(b.acceptCallback)
         -> "Missing accept types."
    [] IsFunction(b.callback) /\ ~(Len(b.recurseTypes) = 0 /\ ~IsFunction(b.recurseCallback))
         /\ ~(Len(b.acceptTypes) = 0 /\ ~IsFunction(b.acceptCallback))
         /\ (b.maxDepth = NaN \/ b.maxNodes = NaN)
         -> "Invalid limit."
    [] OTHER -> "none"

\* The validation with the callback check made last.
BuildFailure_CallbackLast(b) ==
  CASE Len(b.recurseTypes) = 0 /\ ~IsFunction(b.recurseCallback) -> "Missing recurse types."
    [] ~(Len(b.recurseTypes) = 0 /\ ~IsFunction(b.recurseCallback))
         /\ Len(b.acceptTypes) = 0 /\ ~IsFunction(b.acceptCallback)
         -> "Missing accept types."
    [] ~(Len(b.recurseTypes) = 0 /\ ~IsFunction(b.recurseCallback))
         /\ ~(Len(b.acceptTypes) = 0 /\ ~IsFunction(b.acceptCallback))
         /\ ~IsFunction(b.callback)
         -> "Missing callback."
    [] OTHER -> "none"

\* The Error build() throws for the builder state b, or "none".
BuildFailure(b) ==
  CASE ~IsFunction(b.callback) -> "Missing callback."
    [] IsFunction(b.callback) /\ Len(b.recurseTypes) = 0 /\ ~IsFunction(b.recurseCallback)
         -> "Missing recurse types."
    [] IsFunction(b.callback) /\ ~(Len(b.recurseTypes) = 0 /\ ~IsFunction(b.recurseCallback))
         /\ Len(b.acceptTypes) = 0 /\ ~IsFunction(b.acceptCallback)
         -> "Missing accept types."
    [] OTHER -> "none"

\* The arrow functions build() creates when no predicate is installed.  They
\* read this.recurseTypes / this.acceptTypes of the builder when called.
RecurseTypesClosure == "closure:recurseTypes"
AcceptTypesClosure == "closure:acceptTypes"

\* The two limits handed over in the wrong order.
NewTraversal_LimitsSwapped(recurseCallback, acceptCallback, callback, denyCallback, maxDepth, maxNodes) ==
  [ recurseCallback |-> recurseCallback,
    acceptCallback |-> acceptCallback,
    callback |-> callback,
    denyCallback |-> IF IsFunction(denyCallback) THEN denyCallback ELSE "false",
    level |-> 0,
    numNodes |-> 0,
    break |-> FALSE,
    maxDepth |-> maxNodes,
    maxNodes |-> maxDepth ]

\* new Traversal(recurseCallback, acceptCallback, callback, denyCallback, maxDepth, maxNodes)
NewTraversal(recurseCallback, acceptCallback, callback, denyCallback, maxDepth, maxNodes) ==
  [ recurseCallback |-> recurseCallback,
    acceptCallback |-> acceptCallback,
    callback |-> callback,
    denyCallback |-> IF IsFunction(denyCallback) THEN denyCallback ELSE "false",
    level |-> 0,
    numNodes |-> 0,
    break |-> FALSE,
    maxDepth |-> maxDepth,
    maxNodes |-> maxNodes ]

\* const traversal = traversalBuilder.build(): the use-site keeps the
\* Traversal it built last.
Keep(t) == <<t>>

\* lines 257-273: what build() returns for the builder state b
Built(b) ==
  NewTraversal(
    IF IsFunction(b.recurseCallback) THEN b.recurseCallback ELSE RecurseTypesClosure,
    IF IsFunction(b.acceptCallback) THEN b.acceptCallback ELSE AcceptTypesClosure,
    b.callback, b.denyCallback, b.maxDepth, b.maxNodes)

\* A build() that ends with resetAllOptionals(), leaving the builder clean
\* for the next use-site.
BuilderAfterBuild_Reset(b) == AllOptionalsReset(b)

\* lines 242-274 assign no field of the builder
BuilderAfterBuild(b) == b

build ==
  /\ Idle
  /\ buildError' = BuildFailure(builder)
  /\ builder' = BuilderAfterBuild(builder)
  /\ failed' = IF BuildFailure(builder) = "none" THEN failed ELSE <<builder>>
  /\ trav' = IF BuildFailure(builder) = "none" THEN Keep(Built(builder)) ELSE trav
  /\ ForgetWalk
  /\ UNCHANGED <<stack, setterCalls, caller>>

-----------------------------------------------------------------------------
(* Traversal (lib/traversal.js).                                           *)

Instances == 1 .. Len(trav)

\* An installed predicate consulted together with the type-list.
Call_AlsoTypes(f, n) ==
  CASE f = AcceptTypesClosure -> isTypeOf(n, builder.acceptTypes)
    [] f = RecurseTypesClosure -> isTypeOf(n, builder.recurseTypes)
    [] f \in UserAcceptPredicates -> ApplyPredicate(f, n) /\ isTypeOf(n, builder.acceptTypes)
    [] f \in UserRecursePredicates -> ApplyPredicate(f, n) /\ isTypeOf(n, builder.recurseTypes)
    [] OTHER -> ApplyPredicate(f, n)

\* this.acceptCallback(node) / this.recurseCallback(node)
Call(f, n) ==
  CASE f = AcceptTypesClosure -> isTypeOf(n, builder.acceptTypes)
    [] f = RecurseTypesClosure -> isTypeOf(n, builder.recurseTypes)
    [] OTHER -> ApplyPredicate(f, n)

\* What user code does besides returning: nothing, call break(), or throw.
UserEffects == {"return", "break", "throw"}
EffectsOf(f) == IF IsFunction(f) THEN UserEffects ELSE {"return"}

Frame(i, n) == [inst |-> i, node |-> n, pc |-> "enter", nodes |-> <<>>, next |-> 1]

Top == stack[Len(stack)]
Rest == SubSeq(stack, 1, Len(stack) - 1)
This == trav[Top.inst]

At(pc) == stack # <<>> /\ Top.pc = pc

\* The traverse calls made from inside callbacks that have not returned yet.
Nesting == Cardinality({k \in DOMAIN stack : stack[k].pc = "resume"})

Event(kind, n) ==
  [e |-> kind, node |-> n, level |-> This.level, inst |-> Top.inst, depth |-> Nesting]

\* The reset without the counter.
Reset_KeepCount(t) == [t EXCEPT !.break = FALSE]

\* The reset without the break flag.
Reset_KeepBreak(t) == [t EXCEPT !.numNodes = 0]

\* lines 83-84: this.numNodes = 0; this._break = false
Reset(t) == [t EXCEPT !.numNodes = 0, !.break = FALSE]

\* The reset reaching every instance, as with counters all instances share.
Restarted_All(ts, i) == [k \in DOMAIN ts |-> Reset(ts[k])]

\* lines 83-84 on instance i of the instances ts
Restarted(ts, i) == [ts EXCEPT ![i] = Reset(@)]

\* traverse(node, context) on instance i, called by the use-site
Start(i, n) ==
  /\ Idle
  /\ trav[i].level <= MaxStartLevel
  /\ trav' = Restarted(trav, i)
  /\ stack' = <<Frame(i, n)>>
  /\ log' = <<>>
  /\ outcome' = "running"
  /\ root' = n
  /\ startLevel' = trav[i].level
  /\ stale' = (trav[i].break \/ trav[i].numNodes > 0)
  /\ broke' = NotBroken
  /\ failed' = <<>>
  /\ UNCHANGED <<builder, buildError, setterCalls, caller>>

traverse == \E i \in Instances, n \in Roots : Start(i, n) /\ UNCHANGED prev

\* The effect of user code that returns: break() was called in it, or not.
WithBreak(t, e) == IF e = "break" THEN [t EXCEPT !.break = TRUE] ELSE t

NoteBreak(e) ==
  IF e = "break" /\ broke.at < 0
    THEN [at |-> Len(log'), node |-> Top.node, pc |-> Top.pc]
    ELSE broke

\* The errors user code and the node structure raise, by the place of the call.
Errors == {"Error:accept", "Error:callback", "Error:deny", "Error:recurse",
           "Error:getNodes"}

\* The error caught where it is raised, the invocation returning normally.
Throw_Swallowed(lg, err) ==
  /\ stack' = Rest
  /\ log' = Append(lg, Event(err, Top.node))
  /\ outcome' = IF Rest = <<>> THEN "returned" ELSE outcome
  /\ UNCHANGED <<trav, broke>>

\* _traverse and traverse hold no try statement: an error raised in a call
\* leaves every active invocation where it stands and is what the caller of
\* traverse receives.  lg is the record of the walk up to the call.
Throw(lg, err) ==
  /\ stack' = <<>>
  /\ log' = Append(lg, Event(err, Top.node))
  /\ outcome' = err
  /\ UNCHANGED <<trav, broke>>

SetTop(f) == Append(Rest, f)
Goto(pc) == stack' = SetTop([Top EXCEPT !.pc = pc])

\* return from the innermost _traverse invocation
Return ==
  /\ stack' = Rest
  /\ outcome' = IF Rest = <<>> THEN "returned" ELSE outcome

\* The break check left out.
Broken_Never(t) == FALSE

\* if (this._break)
Broken(t) == t.break

\* The count limit looked up in the builder when the walk needs it.
CountLimitReached_Live(t) == PositiveJs(builder.maxNodes) /\ GeqJs(t.numNodes, builder.maxNodes)

\* The count check without its guard this.maxNodes > 0.
CountLimitReached_Unguarded(t) == GeqJs(t.numNodes, t.maxNodes)

\* The count check with > for >=.
CountLimitReached_OffByOne(t) == PositiveJs(t.maxNodes) /\ t.numNodes > t.maxNodes.v

\* this.maxNodes > 0 && this.numNodes >= this.maxNodes
CountLimitReached(t) == PositiveJs(t.maxNodes) /\ GeqJs(t.numNodes, t.maxNodes)

\* The depth check with < for <=.
DepthPermits_Strict(t) == Falsy(t.maxDepth) \/ (IsInt(t.maxDepth) /\ t.level < t.maxDepth.v)

\* !this.maxDepth || this.level <= this.maxDepth
DepthPermits(t) == Falsy(t.maxDepth) \/ LeqJs(t.level, t.maxDepth)

\* The recursion moved into the else branch of the accept decision.
RecurseDecision_UnlessAccepted(t, n) ==
  ~Call(t.acceptCallback, n) /\ Call(t.recurseCallback, n)

\* The cursor read from its end.
nextNode_Reversed(f) == f.nodes[Len(f.nodes) - f.next + 1]

\* if (this.acceptCallback(node)) / if (this.recurseCallback(node))
AcceptDecision(t, n) == Call(t.acceptCallback, n)
RecurseDecision(t, n) == Call(t.recurseCallback, n)

\* A cursor whose nextNode() does not advance: it hands out its first node again.
nextNode_First(f) == f.nodes[1]

\* nodes.hasNext() / nodes.nextNode() of the cursor held by frame f
hasNext(f) == f.next <= Len(f.nodes)
nextNode(f) == f.nodes[f.next]

Fixed == UNCHANGED <<builder, buildError, failed, setterCalls, root, startLevel, prev, caller>>
Frozen == Fixed /\ stale' = stale

\* lines 45-53: the break check, the count check and the isNode check
Enter ==
  /\ At("enter")
  /\ IF Broken(This) \/ CountLimitReached(This) \/ ~isNode(Top.node)
       THEN Return /\ log' = log
       ELSE Goto("accept") /\ log' = Append(log, Event("visit", Top.node)) /\ outcome' = outcome
  /\ stale' = FALSE
  /\ UNCHANGED <<trav, broke>>
  /\ Fixed

\* line 54: this.acceptCallback(node)
Accept ==
  /\ At("accept")
  /\ \E e \in EffectsOf(This.acceptCallback) :
       IF e = "throw" THEN Throw(log, "Error:accept")
       ELSE /\ log' = log
            /\ trav' = [trav EXCEPT ![Top.inst] = WithBreak(@, e)]
            /\ broke' = NoteBreak(e)
            /\ Goto(IF AcceptDecision(This, Top.node) THEN "callback" ELSE "deny")
            /\ outcome' = outcome
  /\ Frozen

\* line 55: this.callback(node, context)
InvokeCallback ==
  /\ At("callback")
  /\ \E e \in EffectsOf(This.callback) :
       IF e = "throw" THEN Throw(Append(log, Event("callback", Top.node)), "Error:callback")
       ELSE /\ log' = Append(log, Event("callback", Top.node))
            /\ trav' = [trav EXCEPT ![Top.inst] = WithBreak(@, e)]
            /\ broke' = NoteBreak(e)
            /\ Goto("count")
            /\ outcome' = outcome
  /\ Frozen

\* The increment forgotten.
Counted_Not(t) == t

\* this.numNodes++
Counted(t) == [t EXCEPT !.numNodes = @ + 1]

\* The else of line 57 dropped: denyCallback is tried after the accept branch too.
AfterAcceptBranch_NoElse == "deny"

\* lines 54-59: if (...) { ... } else if (...) { ... }, the accept branch goes on at line 61
AfterAcceptBranch == "recurse"

\* line 56: this.numNodes++
Count ==
  /\ At("count")
  /\ trav' = [trav EXCEPT ![Top.inst] = Counted(@)]
  /\ Goto(AfterAcceptBranch)
  /\ UNCHANGED <<log, outcome, broke>>
  /\ Frozen

\* lines 57-59: else if (this.denyCallback) this.denyCallback(node, context)
InvokeDeny ==
  /\ At("deny")
  /\ IF This.denyCallback = "false"
       THEN Goto("recurse") /\ UNCHANGED <<log, trav, broke, outcome>>
       ELSE \E e \in EffectsOf(This.denyCallback) :
                 IF e = "throw" THEN Throw(Append(log, Event("deny", Top.node)), "Error:deny")
                 ELSE /\ log' = Append(log, Event("deny", Top.node))
                      /\ trav' = [trav EXCEPT ![Top.inst] = WithBreak(@, e)]
                      /\ broke' = NoteBreak(e)
                      /\ Goto("recurse")
                      /\ outcome' = outcome
  /\ Frozen

\* lines 61-62: if (this.recurseCallback(node)) this.level++
Recurse ==
  /\ At("recurse")
  /\ \E e \in EffectsOf(This.recurseCallback) :
       IF e = "throw" THEN Throw(log, "Error:recurse")
       ELSE /\ log' = log
            /\ broke' = NoteBreak(e)
            /\ IF RecurseDecision(This, Top.node)
                 THEN /\ trav' = [trav EXCEPT ![Top.inst] =
                                     [WithBreak(@, e) EXCEPT !.level = @ + 1]]
                      /\ Goto("fetch")
                      /\ outcome' = outcome
                 ELSE /\ trav' = [trav EXCEPT ![Top.inst] = WithBreak(@, e)]
                      /\ Return
  /\ Frozen

\* lines 63-64: the depth check and nodes = node.getNodes(), which may throw
Fetch ==
  /\ At("fetch")
  /\ IF DepthPermits(This)
       THEN \/ /\ log' = Append(log, Event("getNodes", Top.node))
               /\ stack' = SetTop([Top EXCEPT !.pc = "loop", !.nodes = getNodes(Top.node)])
               /\ UNCHANGED <<trav, broke, outcome>>
            \/ Throw(Append(log, Event("getNodes", Top.node)), "Error:getNodes")
       ELSE Goto("leave") /\ UNCHANGED <<log, trav, broke, outcome>>
  /\ Frozen

\* lines 66-68: while (nodes.hasNext()) this._traverse(nodes.nextNode(), context)
Loop ==
  /\ At("loop")
  /\ IF hasNext(Top)
       THEN stack' = Append(SetTop([Top EXCEPT !.next = @ + 1]),
                            Frame(Top.inst, nextNode(Top)))
       ELSE Goto("leave")
  /\ UNCHANGED <<log, trav, broke, outcome>>
  /\ Frozen

\* The decrement moved inside the depth check.
Left_IfDescended(t) == IF DepthPermits(t) THEN [t EXCEPT !.level = @ - 1] ELSE t

\* this.level--
Left(t) == [t EXCEPT !.level = @ - 1]

\* line 70: this.level--, and the invocation returns
Leave ==
  /\ At("leave")
  /\ trav' = [trav EXCEPT ![Top.inst] = Left(@)]
  /\ Return
  /\ UNCHANGED <<log, broke>>
  /\ Frozen

\* break(), called by the use-site while no walk is in progress
break ==
  \E i \in Instances :
    /\ Idle
    /\ ~trav[i].break
    /\ trav' = [trav EXCEPT ![i].break = TRUE]
    /\ ForgetWalk
    /\ failed' = <<>>
    /\ UNCHANGED <<builder, stack, buildError, setterCalls, caller>>

-----------------------------------------------------------------------------

Init ==
  /\ builder = NewBuilder
  /\ trav = <<>>
  /\ stack = <<>>
  /\ log = <<>>
  /\ outcome = "none"
  /\ root = ""
  /\ startLevel = 0
  /\ stale = FALSE
  /\ broke = NotBroken
  /\ buildError = "none"
  /\ failed = <<>>
  /\ setterCalls = 0
  /\ prev = <<>>
  /\ caller = NoCaller

Next ==
  \/ setRecurseTypes \/ resetRecurseTypes \/ setAcceptTypes \/ resetAcceptTypes
  \/ setRecurseCallback \/ clearRecurseCallback
  \/ setAcceptCallback \/ clearAcceptCallback
  \/ setCallback \/ setDenyCallback \/ clearDenyCallback
  \/ setMaxDepth \/ clearMaxDepth \/ setMaxNodes \/ resetMaxNodes
  \/ resetAllOptionals
  \/ build
  \/ traverse \/ break
  \/ Enter \/ Accept \/ InvokeCallback \/ Count \/ InvokeDeny
  \/ Recurse \/ Fetch \/ Loop \/ Leave

Spec == Init /\ [][Next]_vars

-----------------------------------------------------------------------------
(* Vocabulary of the properties: the tree as the walk should see it.       *)

\* The Traversal the use-site holds.
Traversal == trav[1]

Min(a, b) == IF a <= b THEN a ELSE b

\* Indices of the events of the given kinds in the record of the current call.
EventsOf(kinds) == {j \in DOMAIN log : log[j].e \in kinds}
NodesOf(kinds) == {log[j].node : j \in EventsOf(kinds)}

Invocations == EventsOf({"callback", "deny"})

ParentsOf == [n \in Values |-> {p \in Values : n \in Range(getNodes(p))}]
Parents(n) == ParentsOf[n]

RECURSIVE AncestorsIn(_)
AncestorsIn(n) == Parents(n) \cup UNION {AncestorsIn(p) : p \in Parents(n)}
AncestorsOf == [n \in Values |-> AncestorsIn(n)]
Ancestors(n) == AncestorsOf[n]

\* The nodes at or below r, and the depth of such a node below r.
BelowOf == [r \in Values |-> {n \in Values : n = r \/ r \in Ancestors(n)}]
Below(r) == BelowOf[r]
DepthTable == [r \in Values |-> [n \in Values |-> Cardinality(Ancestors(n) \cap Below(r))]]
DepthBelow(r, n) == DepthTable[r][n]

\* The nodes of the subtree of the root that a walk without count limit, break
\* or error gets to when it descends d levels at most: those all of whose
\* ancestors up to the root are nodes that are recursed into.
ReachableWithin(d) ==
  {n \in Below(root) :
     /\ isNode(n)
     /\ DepthBelow(root, n) <= d
     /\ \A a \in Ancestors(n) \cap Below(root) :
          isNode(a) /\ Call(Traversal.recurseCallback, a)}

\* The same for the depth limit of the Traversal as the code applies it to a
\* walk entered at startLevel.
RECURSIVE Walkable(_, _)
Walkable(n, lvl) ==
  IF ~isNode(n) THEN {}
  ELSE {n} \cup
       IF Call(Traversal.recurseCallback, n)
            /\ DepthPermits([Traversal EXCEPT !.level = lvl + 1])
         THEN UNION {Walkable(getNodes(n)[i], lvl + 1) : i \in DOMAIN getNodes(n)}
         ELSE {}

Acceptable == {n \in Walkable(root, startLevel) : Call(Traversal.acceptCallback, n)}

Walked == outcome # "none"
Completed == outcome = "returned"
Thrown == outcome \in Errors
Unbroken == broke.at < 0
CountLimited == PositiveJs(Traversal.maxNodes)

-----------------------------------------------------------------------------
(* C1: with maxNodes = k > 0 a traverse call invokes callback at most k    *)
(* times; exactly k times when it runs to its end unbroken and at least k  *)
(* acceptable nodes are reachable (all of them when fewer are); and once   *)
(* the k-th invocation is made no callback or denyCallback invocation      *)
(* follows it.                                                             *)
C1_MaxNodes ==
  (Walked /\ CountLimited) =>
    LET k == Traversal.maxNodes.v
        cbs == EventsOf({"callback"})
    IN /\ Cardinality(cbs) <= k
       /\ \A j \in cbs : Cardinality({i \in cbs : i <= j}) = k
                           => \A i \in Invocations : i <= j
       /\ (Completed /\ Unbroken)
            => Cardinality(cbs) = Min(k, Cardinality(Acceptable))

C1_Witness ==
  /\ Walked /\ CountLimited /\ Completed /\ Unbroken
  /\ Traversal.denyCallback # "false"
  /\ Cardinality(EventsOf({"callback"})) = Traversal.maxNodes.v
  /\ Cardinality(Acceptable) > Traversal.maxNodes.v
  /\ Walkable(root, startLevel) \ NodesOf({"visit"}) # {}

-----------------------------------------------------------------------------
(* C2: with maxDepth = d >= 1, in a walk entered at level 0 no node deeper *)
(* than d below the root is visited and the children of a node at depth d  *)
(* are not fetched; a walk that runs to its end unbroken and without count *)
(* limit visits every node at depth <= d all of whose ancestors are        *)
(* recursed into.                                                          *)
C2_MaxDepth ==
  (Walked /\ IsInt(Traversal.maxDepth) /\ Traversal.maxDepth.v >= 1 /\ startLevel = 0) =>
    LET d == Traversal.maxDepth.v
    IN /\ \A n \in NodesOf({"visit"}) : DepthBelow(root, n) <= d
       /\ \A n \in NodesOf({"getNodes"}) : DepthBelow(root, n) < d
       /\ NodesOf({"visit"}) \subseteq ReachableWithin(d)
       /\ (Completed /\ Unbroken /\ ~CountLimited)
            => NodesOf({"visit"}) = ReachableWithin(d)

C2_Witness ==
  /\ Walked /\ Completed /\ Unbroken /\ ~CountLimited /\ startLevel = 0
  /\ Traversal.maxDepth = Int_(1)
  /\ \E n \in NodesOf({"visit"}) : DepthBelow(root, n) = 1 /\ getNodes(n) # <<>>
                                    /\ Call(Traversal.recurseCallback, n)
  /\ \E n \in Below(root) : DepthBelow(root, n) = 2 /\ n \notin NodesOf({"visit"})

-----------------------------------------------------------------------------
(* C3: with maxDepth = 0 a walk entered at level 0 evaluates its root and  *)
(* fetches and visits none of the root's children.                         *)
C3_MaxDepthZero ==
  (Walked /\ Traversal.maxDepth = Int_(0) /\ startLevel = 0) =>
    /\ NodesOf({"getNodes"}) = {}
    /\ NodesOf({"visit"}) \subseteq {root}
    /\ (Completed /\ isNode(root)) => root \in NodesOf({"visit"})

-----------------------------------------------------------------------------
(* C4: what a built Traversal accepts and recurses into is not changed by  *)
(* anything done to the builder after build().                             *)
Decisions ==
  IF trav = <<>> THEN <<{}, {}>>
  ELSE << {n \in Values : isNode(n) /\ Call(Traversal.acceptCallback, n)},
          {n \in Values : isNode(n) /\ Call(Traversal.recurseCallback, n)} >>

C4_TypeListsFrozen ==
  [][(trav # <<>> /\ trav' = trav) => Decisions' = Decisions]_vars

-----------------------------------------------------------------------------
(* C5: once break() is called in a walk, callback and denyCallback are     *)
(* invoked on no node but the one being handled at that moment and no      *)
(* further node is visited; the handling of that node completes: it gets   *)
(* its callback or denyCallback, and every callback invocation is counted. *)
C5_Break ==
  (Walked /\ ~Unbroken) =>
    /\ \A j \in Invocations : j > broke.at => log[j].node = broke.node
    /\ \A j \in EventsOf({"visit"}) : j <= broke.at
    /\ Completed =>
         /\ Traversal.numNodes = Cardinality(EventsOf({"callback"}))
         /\ Call(Traversal.acceptCallback, broke.node)
              => broke.node \in NodesOf({"callback"})
         /\ (~Call(Traversal.acceptCallback, broke.node) /\ Traversal.denyCallback # "false")
              => broke.node \in NodesOf({"deny"})

C5_Witness ==
  /\ Walked /\ Completed /\ ~CountLimited
  /\ broke.pc = "callback"
  /\ Traversal.numNodes = 1
  /\ log[broke.at].node = broke.node
  /\ Acceptable \ NodesOf({"visit"}) # {}

-----------------------------------------------------------------------------
(* C6: a traverse call starts with numNodes = 0 and the break flag false,  *)
(* whatever earlier walks and break() calls left behind, so that its root, *)
(* if a node, is visited and, if accepted, passed to callback.             *)
C6_FreshWalk ==
  /\ (Len(stack) = 1 /\ At("enter")) => (Traversal.numNodes = 0 /\ ~Traversal.break)
  /\ (Completed /\ isNode(root)) =>
       /\ root \in NodesOf({"visit"})
       /\ Call(Traversal.acceptCallback, root) => root \in NodesOf({"callback"})

C6_Witness ==
  /\ stale /\ Len(stack) = 1 /\ At("enter")
  /\ CountLimited
  /\ isNode(root) /\ Call(Traversal.acceptCallback, root)

-----------------------------------------------------------------------------
(* C7: every traverse call walks its root at level 0.                      *)
C7_StartsAtLevelZero == Walked => startLevel = 0

-----------------------------------------------------------------------------
(* C8 (its first half): once numNodes >= maxNodes > 0 no child fetch is    *)
(* performed in the walk.                                                  *)
C8_NoFetchAfterCountLimit ==
  (Walked /\ CountLimited) =>
    \A j \in EventsOf({"getNodes"}) :
      Cardinality({i \in EventsOf({"callback"}) : i < j}) < Traversal.maxNodes.v

-----------------------------------------------------------------------------
(* C9: callback is invoked on a visited node iff the accept decision is    *)
(* true for it and denyCallback, if set, iff it is false; the children of  *)
(* a visited node are fetched iff the recurse decision is true for it and  *)
(* the depth limit permits, whatever the accept decision, and are visited  *)
(* then (in a walk without break and count limit) and only then.           *)
LevelOf(n) == log[CHOOSE j \in EventsOf({"visit"}) : log[j].node = n].level

-----------------------------------------------------------------------------
(* C10: the invocations of a walk are in depth-first pre-order: that of a  *)
(* node precedes those of its descendants, and for two children of one     *)
(* node every invocation in the subtree of the one the cursor yields first *)
(* precedes every invocation in the subtree of the other.                  *)
Index(seq, x) == CHOOSE i \in DOMAIN seq : seq[i] = x

\* The pairs <<x, y>> of which x is to be handled before y.
Precedes ==
  {xy \in Values \X Values :
     \/ xy[1] \in Ancestors(xy[2])
     \/ \E p \in Values : \E a, b \in Range(getNodes(p)) :
          /\ Index(getNodes(p), a) < Index(getNodes(p), b)
          /\ xy[1] \in Below(a)
          /\ xy[2] \in Below(b)}

-----------------------------------------------------------------------------
(* C11 as stated: at every point of a traverse call, and after it, numNodes *)
(* is the number of callback invocations the call has made (the increment  *)
(* being the statement that follows the invocation).                       *)
Pending == IF At("count") THEN 1 ELSE 0

C11_CountsInvocations ==
  Walked => Traversal.numNodes + Pending = Cardinality(EventsOf({"callback"}))

(* C11 amended: numNodes is the number of callback invocations of the call *)
(* that have returned; an invocation that raised is not counted, and       *)
(* neither are denyCallback invocations and skipped values.                *)
C11_CountsReturned ==
  Walked =>
    Traversal.numNodes + Pending
      = Cardinality(EventsOf({"callback"})) - (IF outcome = "Error:callback" THEN 1 ELSE 0)

C11_Witness ==
  /\ outcome = "Error:callback"
  /\ Traversal.numNodes = 1
  /\ NodesOf({"deny"}) # {}
  /\ "F1" \in NodesOf({"visit"})

-----------------------------------------------------------------------------
(* C12: build() returns a Traversal iff callback is set and, for recurse   *)
(* and for accept alike, the predicate is set or the type-list is not      *)
(* empty; otherwise it throws and the use-site gets no Traversal from it.  *)
Configured(b) ==
  /\ b.callback # "null"
  /\ (b.recurseCallback # "null" \/ b.recurseTypes # <<>>)
  /\ (b.acceptCallback # "null" \/ b.acceptTypes # <<>>)

C12_BuildValidation ==
  [][build =>
       /\ Configured(builder) <=> buildError' = "none"
       /\ Configured(builder) =>
            /\ Len(trav') = 1
            /\ trav'[1].callback = builder.callback
            /\ trav'[1].level = 0 /\ trav'[1].numNodes = 0 /\ ~trav'[1].break
       /\ ~Configured(builder) => trav' = trav]_vars

C12_Witness ==
  /\ buildError = "Missing accept types."
  /\ builder.acceptTypes = <<>>
  /\ trav # <<>>
  /\ Traversal.recurseCallback = "anyNode"

-----------------------------------------------------------------------------
(* C13: a build() that throws changes no field of the builder (and gives   *)
(* the use-site no Traversal); once the use-site has supplied what was     *)
(* missing and touched nothing else, build() succeeds and the Traversal it *)
(* returns has every other setting as it was before the failure.           *)

\* The requirements of build() that the builder state b does not meet.
Unmet(b) ==
  {r \in {"callback"} : b.callback = "null"}
    \cup {r \in {"recurse"} : b.recurseCallback = "null" /\ b.recurseTypes = <<>>}
    \cup {r \in {"accept"} : b.acceptCallback = "null" /\ b.acceptTypes = <<>>}

\* The fields with which a requirement is met.
FieldsOf(r) ==
  CASE r = "callback" -> {"callback"}
    [] r = "recurse" -> {"recurseTypes", "recurseCallback"}
    [] r = "accept" -> {"acceptTypes", "acceptCallback"}

\* b is f with what f lacked supplied and nothing else changed.
OnlyCorrected(f, b) ==
  /\ Unmet(f) # {}
  /\ Unmet(b) = {}
  /\ \A fld \in (DOMAIN f) \ UNION {FieldsOf(r) : r \in Unmet(f)} : b[fld] = f[fld]

\* The Traversal t and the type-lists it reads have the settings of f in
\* every field outside the requirements f did not meet.
Intact(f, t, b) ==
  /\ t.maxDepth = f.maxDepth
  /\ t.maxNodes = f.maxNodes
  /\ t.denyCallback = (IF f.denyCallback = "null" THEN "false" ELSE f.denyCallback)
  /\ "callback" \notin Unmet(f) => t.callback = f.callback
  /\ "recurse" \notin Unmet(f) =>
       /\ t.recurseCallback = (IF f.recurseCallback = "null"
                                 THEN RecurseTypesClosure ELSE f.recurseCallback)
       /\ b.recurseTypes = f.recurseTypes
  /\ "accept" \notin Unmet(f) =>
       /\ t.acceptCallback = (IF f.acceptCallback = "null"
                                THEN AcceptTypesClosure ELSE f.acceptCallback)
       /\ b.acceptTypes = f.acceptTypes

C13_FailedBuildKeepsBuilder ==
  [][build =>
       /\ buildError' # "none" =>
            /\ builder' = builder
            /\ trav' = trav
            /\ failed' = <<builder'>>
       /\ (failed # <<>> /\ OnlyCorrected(failed[1], builder)) =>
            /\ buildError' = "none"
            /\ Len(trav') = 1
            /\ Intact(failed[1], trav'[1], builder')]_vars

C13_Witness ==
  /\ failed # <<>> /\ OnlyCorrected(failed[1], builder)
  /\ failed[1].maxDepth = Int_(1)
  /\ failed[1].acceptCallback = "isArticle"
  /\ buildError = "none"
  /\ trav # <<>>
  /\ Traversal.maxDepth = Int_(1)
  /\ Traversal.acceptCallback = "isArticle"

-----------------------------------------------------------------------------
(* C14: the message of the error build() throws names the first unmet      *)
(* requirement in the order callback, recurse, accept, the three messages  *)
(* being different; a missing callback is reported whatever the type-lists *)
(* hold.                                                                   *)
C14_ErrorNamesRequirement ==
  [][build =>
       LET unmet == Unmet(builder)
       IN /\ "callback" \in unmet => buildError' = "Missing callback."
          /\ ("callback" \notin unmet /\ "recurse" \in unmet)
               => buildError' = "Missing recurse types."
          /\ ("callback" \notin unmet /\ "recurse" \notin unmet /\ "accept" \in unmet)
               => buildError' = "Missing accept types."
          /\ buildError' = "Missing callback." => "callback" \in unmet
          /\ buildError' = "Missing recurse types." => "recurse" \in unmet
          /\ buildError' = "Missing accept types." => "accept" \in unmet]_vars

C14_Witness ==
  /\ buildError = "Missing callback."
  /\ failed # <<>>
  /\ Unmet(failed[1]) = {"callback", "recurse", "accept"}

-----------------------------------------------------------------------------
(* C15: build() hands the Traversal the accept (recurse) predicate that is *)
(* installed at that moment, and the type-list closure when none is (so    *)
(* again after clearAcceptCallback / clearRecurseCallback); a Traversal    *)
(* holding a predicate accepts (recurses into) exactly the nodes the       *)
(* predicate is true of, in its walks and whatever the type-lists hold or  *)
(* come to hold (the decisions are read off between walks: no step of a    *)
(* walk touches what they depend on).                                      *)
Nodes == {n \in Values : isNode(n)}

\* What build() made of the builder's predicates.
BuiltFrom(b, t) ==
  /\ t.acceptCallback = (IF b.acceptCallback = "null" THEN AcceptTypesClosure
                          ELSE b.acceptCallback)
  /\ t.recurseCallback = (IF b.recurseCallback = "null" THEN RecurseTypesClosure
                           ELSE b.recurseCallback)

\* The decisions of the held Traversal, by predicate where it holds one and by
\* the builder's type-list where it does not.
DecidesAsBuilt ==
  \A n \in Nodes :
    /\ AcceptDecision(Traversal, n)
         = (IF Traversal.acceptCallback \in UserAcceptPredicates
              THEN ApplyPredicate(Traversal.acceptCallback, n)
              ELSE isTypeOf(n, builder.acceptTypes))
    /\ RecurseDecision(Traversal, n)
         = (IF Traversal.recurseCallback \in UserRecursePredicates
              THEN ApplyPredicate(Traversal.recurseCallback, n)
              ELSE isTypeOf(n, builder.recurseTypes))

\* The walk of a Traversal holding predicates follows them.
WalksByPredicate ==
  /\ Traversal.acceptCallback \in UserAcceptPredicates =>
       /\ \A n \in NodesOf({"callback"}) : ApplyPredicate(Traversal.acceptCallback, n)
       /\ \A n \in NodesOf({"deny"}) : ~ApplyPredicate(Traversal.acceptCallback, n)
       /\ Completed =>
            \A n \in NodesOf({"visit"}) :
              ApplyPredicate(Traversal.acceptCallback, n) => n \in NodesOf({"callback"})
  /\ Traversal.recurseCallback \in UserRecursePredicates =>
       /\ \A n \in NodesOf({"getNodes"}) : ApplyPredicate(Traversal.recurseCallback, n)
       /\ (Completed /\ Falsy(Traversal.maxDepth)) =>
            \A n \in NodesOf({"visit"}) :
              ApplyPredicate(Traversal.recurseCallback, n) => n \in NodesOf({"getNodes"})

C15_PredicateOverrides ==
  [][/\ (build /\ buildError' = "none") => BuiltFrom(builder, trav'[1])
     /\ (trav' # <<>> /\ stack' = <<>>) => DecidesAsBuilt'
     /\ trav' # <<>> => WalksByPredicate']_vars

C15_Witness ==
  /\ Walked /\ Completed
  /\ Traversal.acceptCallback = "isArticle"
  /\ builder.acceptTypes = <<>>
  /\ "A1" \in NodesOf({"callback"})
  /\ "P1" \in NodesOf({"visit"}) \ NodesOf({"callback"})

-----------------------------------------------------------------------------
(* C16: an error raised in a traverse call by callback, denyCallback, a    *)
(* predicate or getNodes is what the caller of traverse receives; it ends  *)
(* the call at once, every active invocation abandoned, so that nothing is *)
(* invoked after it.                                                       *)
Raised == {j \in DOMAIN log : log[j].e \in Errors}

C16_ErrorPropagates ==
  /\ \A j \in Raised :
       /\ outcome = log[j].e
       /\ j = Len(log)
       /\ stack = <<>>
  /\ Thrown => Raised # {}

C16_Witness ==
  /\ outcome = "Error:callback"
  /\ log[Len(log)].node = "A1"
  /\ "P1" \in NodesOf({"callback"})
  /\ Traversal.level = 2

-----------------------------------------------------------------------------
(* C17: a value that is not a node is passed over wherever the walk meets  *)
(* it, as root or as a child: its invocation returns at once, nothing is   *)
(* evaluated or invoked on it, numNodes and level stay as they are, no     *)
(* error is raised, and the walk goes on with the siblings that follow.    *)
NonNodes == {n \in Values : PrimaryType(n) = "none"}

Skipped ==
  /\ \A j \in DOMAIN log : log[j].node \notin NonNodes
  /\ \A k \in DOMAIN stack : stack[k].node \in NonNodes => stack[k].pc = "enter"
  /\ (Walked /\ root \in NonNodes) => (log = <<>> /\ Len(stack) <= 1 /\ ~Thrown)
  /\ (Completed /\ Unbroken /\ ~CountLimited) =>
       \A j \in EventsOf({"getNodes"}) :
         \A c \in Range(getNodes(log[j].node)) \ NonNodes : c \in NodesOf({"visit"})

C17_NonNodeSkipped ==
  [][/\ (At("enter") /\ Top.node \in NonNodes) =>
          /\ stack' = Rest
          /\ log' = log
          /\ trav' = trav
          /\ outcome' = (IF Rest = <<>> THEN "returned" ELSE outcome)
     /\ Skipped']_vars

C17_Witness ==
  /\ Walked /\ Completed /\ Unbroken /\ ~CountLimited
  /\ "R" \in NodesOf({"getNodes"})
  /\ Range(getNodes("R")) \cap NonNodes # {}
  /\ {"P1", "F1"} \subseteq NodesOf({"visit"})

-----------------------------------------------------------------------------
(* A use-site that configures the builder once, builds one Traversal and   *)
(* calls traverse on it again and again, noting of each call that returned *)
(* without break() what it invoked, to compare it with the next call.      *)

\* The builder after setCallback(cb) and the setters of the chain.
Configurations ==
  LET b == [NewBuilder EXCEPT !.callback = "cb"]
  IN { [b EXCEPT !.denyCallback = "deny"],
       [b EXCEPT !.denyCallback = "deny", !.maxNodes = parseInt("1")],
       [b EXCEPT !.maxNodes = parseInt("2")],
       [b EXCEPT !.denyCallback = "deny", !.maxDepth = parseInt("1")],
       [b EXCEPT !.recurseCallback = "anyNode", !.maxDepth = parseInt("2")],
       [b EXCEPT !.acceptCallback = "isArticle", !.denyCallback = "deny"] }

\* The callback and denyCallback invocations of the current call, in order.
InvocationSeq == SelectSeq(log, LAMBDA ev : ev.e \in {"callback", "deny"})

InitSequential ==
  /\ builder \in Configurations
  /\ trav = Keep(Built(builder))
  /\ stack = <<>>
  /\ log = <<>>
  /\ outcome = "none"
  /\ root = ""
  /\ startLevel = 0
  /\ stale = FALSE
  /\ broke = NotBroken
  /\ buildError = "none"
  /\ failed = <<>>
  /\ setterCalls = 0
  /\ prev = <<>>
  /\ caller = NoCaller

\* traverse(node, context), called after an earlier call has ended
traverseAgain ==
  \E i \in Instances, n \in Roots :
    /\ Start(i, n)
    /\ prev' = IF Completed /\ Unbroken
                 THEN <<[root |-> root, seq |-> InvocationSeq]>>
                 ELSE <<>>

NextSequential ==
  \/ traverseAgain
  \/ Enter \/ Accept \/ InvokeCallback \/ Count \/ InvokeDeny
  \/ Recurse \/ Fetch \/ Loop \/ Leave

SpecSequential == InitSequential /\ [][NextSequential]_vars

-----------------------------------------------------------------------------
(* C19: of two consecutive traverse calls on one instance from the same    *)
(* root, the configuration unchanged, that both return without break(),    *)
(* the second makes the callback and denyCallback invocations of the first *)
(* in the same order.                                                      *)
C19_Deterministic ==
  (prev # <<>> /\ Completed /\ Unbroken /\ prev[1].root = root)
    => InvocationSeq = prev[1].seq

C19_Witness ==
  /\ prev # <<>> /\ Completed /\ Unbroken /\ prev[1].root = root
  /\ CountLimited
  /\ Len(InvocationSeq) >= 2
  /\ NodesOf({"callback"}) # {} /\ NodesOf({"deny"}) # {}

-----------------------------------------------------------------------------
(* A use-site that takes up a builder it has configured before and goes on *)
(* configuring, resetting and building.                                    *)
InitConfigured ==
  /\ builder \in Configurations \cup {NewBuilder}
  /\ trav = <<>>
  /\ stack = <<>>
  /\ log = <<>>
  /\ outcome = "none"
  /\ root = ""
  /\ startLevel = 0
  /\ stale = FALSE
  /\ broke = NotBroken
  /\ buildError = "none"
  /\ failed = <<>>
  /\ setterCalls = 0
  /\ prev = <<>>
  /\ caller = NoCaller

NextBuilder ==
  \/ setRecurseTypes \/ resetRecurseTypes \/ setAcceptTypes \/ resetAcceptTypes
  \/ setRecurseCallback \/ clearRecurseCallback
  \/ setAcceptCallback \/ clearAcceptCallback
  \/ setCallback \/ setDenyCallback \/ clearDenyCallback
  \/ setMaxDepth \/ clearMaxDepth \/ setMaxNodes \/ resetMaxNodes
  \/ resetAllOptionals
  \/ build

SpecBuilder == InitConfigured /\ [][NextBuilder]_vars

-----------------------------------------------------------------------------
(* C20: resetAllOptionals leaves the builder with the default type-lists,  *)
(* no recurse predicate, no accept predicate, no denyCallback, no maxDepth *)
(* and maxNodes 0, its callback as it was; a Traversal built before is not *)
(* touched.                                                                *)
C20_ResetAllOptionals ==
  [][resetAllOptionals =>
       /\ builder'.recurseTypes = DEFAULT_RECURSE_TYPES
       /\ builder'.acceptTypes = DEFAULT_ACCEPT_TYPES
       /\ builder'.recurseCallback = "null"
       /\ builder'.acceptCallback = "null"
       /\ builder'.denyCallback = "null"
       /\ builder'.maxDepth = Null
       /\ builder'.maxNodes = Int_(0)
       /\ builder'.callback = builder.callback
       /\ trav' = trav]_vars

C20_Witness ==
  /\ setterCalls = 1
  /\ builder = [NewBuilder EXCEPT !.callback = "cb"]
  /\ trav # <<>>
  /\ Traversal.denyCallback = "deny"
  /\ Traversal.maxNodes = Int_(1)

-----------------------------------------------------------------------------
(* A use-site that builds two Traversals from its configured builder and   *)
(* walks the first; the callback may call traverse itself, on either       *)
(* instance, before it returns.                                            *)
\* The builders of such a use-site: the configurations above and one whose
\* walk reaches three acceptable nodes under a count limit of two.
NestedConfigurations ==
  Configurations \cup
    { [NewBuilder EXCEPT !.callback = "cb", !.recurseCallback = "anyNode",
                         !.maxNodes = parseInt("2")] }

InitNested ==
  /\ builder \in NestedConfigurations
  /\ trav = <<Built(builder), Built(builder)>>
  /\ stack = <<>>
  /\ log = <<>>
  /\ outcome = "none"
  /\ root = ""
  /\ startLevel = 0
  /\ stale = FALSE
  /\ broke = NotBroken
  /\ buildError = "none"
  /\ failed = <<>>
  /\ setterCalls = 0
  /\ prev = <<>>
  /\ caller = NoCaller

traverseFirst == \E n \in Roots : Start(1, n) /\ UNCHANGED prev

Reentries == {k \in DOMAIN log : log[k].e = "traverse"}

\* line 55, the callback calling traverse(n) on instance j: lines 83-85 run
\* inside the callback's invocation
Reenter ==
  \E j \in Instances, n \in Roots :
    /\ At("callback")
    /\ Cardinality(Reentries) < MaxReentries
    /\ j # Top.inst => trav[j].level <= MaxStartLevel
    /\ trav' = Restarted(trav, j)
    /\ log' = Append(Append(log, Event("callback", Top.node)),
                     [e |-> "traverse", node |-> n, level |-> trav[j].level,
                      inst |-> j, depth |-> Nesting + 1])
    /\ stack' = Append(SetTop([Top EXCEPT !.pc = "resume"]), Frame(j, n))
    /\ UNCHANGED <<outcome, broke>>
    /\ Frozen

\* line 55, the callback calling break() on the instance that invoked it
\* (lines 94-96) and going on
breakInCallback ==
  /\ At("callback")
  /\ ~This.break
  /\ trav' = [trav EXCEPT ![Top.inst] = WithBreak(@, "break")]
  /\ broke' = IF broke.at < 0
                THEN [at |-> Len(log) + 1, node |-> Top.node, pc |-> Top.pc]
                ELSE broke
  /\ UNCHANGED <<stack, log, outcome>>
  /\ Frozen

\* line 55, the traverse call made by the callback has returned: the callback
\* goes on and returns, or throws
Resume ==
  /\ At("resume")
  /\ \E e \in EffectsOf(This.callback) :
       IF e = "throw" THEN Throw(log, "Error:callback")
       ELSE /\ log' = log
            /\ trav' = [trav EXCEPT ![Top.inst] = WithBreak(@, e)]
            /\ broke' = NoteBreak(e)
            /\ Goto("count")
            /\ outcome' = outcome
  /\ Frozen

NextNested ==
  \/ traverseFirst \/ breakInCallback \/ Reenter \/ Resume
  \/ Enter \/ Accept \/ InvokeCallback \/ Count \/ InvokeDeny
  \/ Recurse \/ Fetch \/ Loop \/ Leave

SpecNested == InitNested /\ [][NextNested]_vars

-----------------------------------------------------------------------------
(* C18: a step of a walk changes level, numNodes and break flag of no      *)
(* instance but the one walking, also when the walk was started from       *)
(* inside a callback of the other instance's walk in progress; and a walk  *)
(* of the first instance during which only the other instance is walked    *)
(* from its callbacks invokes callback as it does alone: on the acceptable *)
(* nodes in pre-order, up to its own count limit, each counted once.       *)

\* The callback invocations of the use-site's own traverse call.
OwnCallbacks == {k \in DOMAIN log : log[k].e = "callback" /\ log[k].depth = 0}

\* The instance was walked from inside a callback during the current call.
Reentered(i) == \E k \in Reentries : log[k].inst = i

WalksAsAlone ==
  (Completed /\ ~Traversal.break /\ ~Reentered(1)) =>
    LET own == {log[k].node : k \in OwnCallbacks}
    IN /\ own \subseteq Acceptable
       /\ \A c \in own : \A a \in Acceptable : <<a, c>> \in Precedes => a \in own
       /\ Cardinality(own) = IF CountLimited
                                THEN Min(Traversal.maxNodes.v, Cardinality(Acceptable))
                                ELSE Cardinality(Acceptable)
       /\ Cardinality(OwnCallbacks) = Cardinality(own)
       /\ \A i, j \in OwnCallbacks :
            <<log[i].node, log[j].node>> \in Precedes => i < j
       /\ Traversal.numNodes = Cardinality(OwnCallbacks)
       /\ Traversal.level = startLevel

C18_Independent ==
  [][/\ \A i \in DOMAIN trav :
          trav'[i] # trav[i] =>
            i = (IF Len(stack') > Len(stack) THEN stack'[Len(stack')].inst ELSE Top.inst)
     /\ WalksAsAlone']_vars

C18_Witness ==
  /\ Completed /\ CountLimited
  /\ Reentered(2) /\ ~Reentered(1)
  /\ trav[2].break /\ trav[2].numNodes >= 1
  /\ ~trav[1].break /\ trav[1].numNodes = 2

-----------------------------------------------------------------------------
(* C21: a Traversal whose maxDepth is the NaN that setMaxDepth makes of a  *)
(* non-numeric argument fetches and visits no child in a walk entered at   *)
(* level 0: the walk evaluates its root and nothing else.                  *)
C21_NaNNeverDescends ==
  (Walked /\ Traversal.maxDepth = NaN /\ startLevel = 0) =>
    /\ NodesOf({"getNodes"}) = {}
    /\ NodesOf({"visit"}) \subseteq {root}

-----------------------------------------------------------------------------
(* C22: setMaxDepth and setMaxNodes given a non-numeric argument store NaN *)
(* and raise nothing, and build() of a builder that meets the three        *)
(* requirements succeeds with such a limit, handing it to the Traversal.   *)
NonNumericArgs == {a \in DepthArgs \cup NodesArgs : parseInt(a) = NaN}

C22_InvalidLimitsAccepted ==
  [][/\ \A a \in NonNumericArgs :
          /\ Setter([builder EXCEPT !.maxDepth = parseInt(a)]) =>
               (builder'.maxDepth = NaN /\ buildError' = buildError /\ trav' = trav)
          /\ Setter([builder EXCEPT !.maxNodes = parseInt(a)]) =>
               (builder'.maxNodes = NaN /\ buildError' = buildError /\ trav' = trav)
     /\ (build /\ Configured(builder) /\ (builder.maxDepth = NaN \/ builder.maxNodes = NaN)) =>
          /\ buildError' = "none"
          /\ Len(trav') = 1
          /\ trav'[1].maxDepth = builder.maxDepth
          /\ trav'[1].maxNodes = builder.maxNodes]_vars

C22_Witness ==
  /\ buildError = "none"
  /\ trav # <<>>
  /\ Traversal.maxDepth = NaN
  /\ Traversal.maxNodes = NaN
  /\ builder.maxDepth = NaN /\ builder.maxNodes = NaN

-----------------------------------------------------------------------------
(* A use-site that keeps an array of type tags, passes it to the type-list *)
(* setters, changes it in place afterwards, and builds.                    *)

\* What the use-site's array holds at one time or another.
CallerArrays == {<<>>, <<PAGE_TYPE>>, <<PAGE_TYPE, FOLDER_TYPE>>, <<ARTICLE_TYPE, ARCHIVE_TYPE>>}

TypeFields == {"recurseTypes", "acceptTypes"}

InitCaller ==
  /\ builder \in Configurations \cup {NewBuilder}
  /\ trav = <<>>
  /\ stack = <<>>
  /\ log = <<>>
  /\ outcome = "none"
  /\ root = ""
  /\ startLevel = 0
  /\ stale = FALSE
  /\ broke = NotBroken
  /\ buildError = "none"
  /\ failed = <<>>
  /\ setterCalls = 0
  /\ prev = <<>>
  /\ caller \in {[array |-> a, shared |-> {}] : a \in CallerArrays}

\* setRecurseTypes(array) / setAcceptTypes(array) with the use-site's array:
\* Array.isArray holds, so castToJs is given the array itself
PassArray(field) ==
  /\ Idle
  /\ builder' = [builder EXCEPT ![field] = castToJs(caller.array)]
  /\ caller' = [caller EXCEPT !.shared = IF castToJsReturnsInput(caller.array)
                                            THEN @ \cup {field} ELSE @ \ {field}]
  /\ ForgetWalk
  /\ UNCHANGED <<trav, stack, buildError, failed, setterCalls>>

passRecurseTypes == PassArray("recurseTypes")
passAcceptTypes == PassArray("acceptTypes")

\* The use-site changes its array in place: every reference to the array
\* sees the new contents.
mutateArray ==
  \E a \in CallerArrays \ {caller.array} :
    /\ Idle
    /\ caller' = [caller EXCEPT !.array = a]
    /\ builder' = [f \in DOMAIN builder |-> IF f \in caller.shared THEN a ELSE builder[f]]
    /\ UNCHANGED <<trav, stack, log, outcome, root, startLevel, stale, broke,
                   buildError, failed, setterCalls, prev>>

NextCaller ==
  \/ passRecurseTypes \/ passAcceptTypes \/ mutateArray
  \/ setRecurseTypes \/ setAcceptTypes
  \/ build

SpecCaller == InitCaller /\ [][NextCaller]_vars

-----------------------------------------------------------------------------
(* C23: the type-list setters store an array of their own holding the tags *)
(* they were given, a single tag as a list of one: a change the use-site   *)
(* makes afterwards to the array it passed changes no field of the builder *)
(* and no decision of a Traversal, built before or after.                  *)
C23_TypeListsCopied ==
  [][/\ \A field \in TypeFields :
          PassArray(field) =>
            (builder'[field] = caller.array /\ caller'.shared = {})
     /\ \A a \in TypeArgs :
          (~a.isArray /\ Setter([builder EXCEPT !.recurseTypes = castToJs(ToArray(a))]))
            => builder'.recurseTypes = <<a.tag>>
     /\ \A a \in TypeArgs :
          (~a.isArray /\ Setter([builder EXCEPT !.acceptTypes = castToJs(ToArray(a))]))
            => builder'.acceptTypes = <<a.tag>>
     /\ caller'.array # caller.array =>
          /\ builder' = builder
          /\ Decisions' = Decisions
     /\ (build /\ buildError' = "none") => BuiltFrom(builder, trav'[1])]_vars

C23_Witness ==
  /\ builder.acceptTypes = <<PAGE_TYPE, FOLDER_TYPE>>
  /\ caller.array = <<>>
  /\ buildError = "none"
  /\ trav # <<>>
  /\ Traversal.acceptCallback = AcceptTypesClosure
  /\ Decisions[1] = {"R", "P1", "F1", "P2"}

-----------------------------------------------------------------------------
(* C24: in a walk entered at level 0, level is the depth below the root of *)
(* the node on which callback or denyCallback is running; level is never   *)
(* negative, nor below what it was when traverse was called; and when the  *)
(* call returns normally, also after break() or with the count limit       *)
(* exhausted, level is what it was when traverse was called.               *)
C24_LevelBalanced ==
  /\ \A i \in DOMAIN trav : trav[i].level >= 0
  /\ Walked =>
       /\ Traversal.level >= startLevel
       /\ startLevel = 0 =>
            \A j \in Invocations : log[j].level = DepthBelow(root, log[j].node)
       /\ Completed => Traversal.level = startLevel

C24_Witness ==
  /\ Walked /\ Completed /\ ~Unbroken /\ startLevel = 0
  /\ \E j \in Invocations : log[j].level = 2 /\ j >= broke.at
  /\ Traversal.level = 0

-----------------------------------------------------------------------------
(* C25: the predicates, callback, denyCallback, maxDepth and maxNodes a    *)
(* Traversal was built with stay as they are: no setter call and no step   *)
(* of a walk changes them; a call of a setter other than the two type-list *)
(* setters changes no decision of the Traversal; and its walks go by the   *)
(* values it was built with, whatever the builder holds by then.           *)
Settings(t) ==
  <<t.recurseCallback, t.acceptCallback, t.callback, t.denyCallback, t.maxDepth, t.maxNodes>>

WalksAsBuilt ==
  Walked =>
    /\ CountLimited => Cardinality(EventsOf({"callback"})) <= Traversal.maxNodes.v
    /\ NodesOf({"deny"}) # {} => Traversal.denyCallback # "false"
    /\ Completed =>
         /\ (Unbroken /\ ~CountLimited) => NodesOf({"callback"}) = Acceptable
         /\ (Unbroken /\ CountLimited) =>
              Cardinality(EventsOf({"callback"}))
                = Min(Traversal.maxNodes.v, Cardinality(Acceptable))
         /\ Traversal.denyCallback # "false" =>
              \A n \in NodesOf({"visit"}) :
                ~AcceptDecision(Traversal, n) => n \in NodesOf({"deny"})

C25_FixedAtBuild ==
  [][/\ ~build =>
          /\ Len(trav') = Len(trav)
          /\ \A i \in DOMAIN trav : Settings(trav'[i]) = Settings(trav[i])
     /\ (/\ trav # <<>>
         /\ builder' # builder
         /\ builder'.recurseTypes = builder.recurseTypes
         /\ builder'.acceptTypes = builder.acceptTypes)
          => (trav' = trav /\ Decisions' = Decisions)
     /\ WalksAsBuilt']_vars

C25_Witness ==
  /\ Walked /\ Completed /\ Unbroken
  /\ Traversal.maxNodes = Int_(1)
  /\ builder.maxNodes = Int_(0)
  /\ setterCalls = 2
  /\ Cardinality(EventsOf({"callback"})) = 1
  /\ Cardinality(Acceptable) > 1

-----------------------------------------------------------------------------
(* The walk under the scheduling of the language: traverse is a            *)
(* synchronous call, so once it is entered the engine executes its next    *)
(* statement; no setter, build or break() of the use-site can run before   *)
(* it has returned or raised. Hence weak fairness of the steps of          *)
(* _traverse; nothing is assumed of the use-site's own calls.              *)
Step ==
  \/ Enter \/ Accept \/ InvokeCallback \/ Count \/ InvokeDeny
  \/ Recurse \/ Fetch \/ Loop \/ Leave

\* The builder after setCallback(cb), setMaxDepth(x), setMaxNodes(y) and,
\* for some use-sites, setRecurseCallback and setDenyCallback.
LimitCombinations ==
  { [NewBuilder EXCEPT !.callback = "cb", !.recurseCallback = r, !.denyCallback = d,
                       !.maxDepth = parseInt(x), !.maxNodes = parseInt(y)] :
      r \in {"null"} \cup UserRecursePredicates,
      d \in {"null"} \cup UserDenyCallbacks,
      x \in DepthArgs, y \in NodesArgs }

InitTerminating ==
  /\ builder \in LimitCombinations
  /\ trav = <<>>
  /\ stack = <<>>
  /\ log = <<>>
  /\ outcome = "none"
  /\ root = ""
  /\ startLevel = 0
  /\ stale = FALSE
  /\ broke = NotBroken
  /\ buildError = "none"
  /\ failed = <<>>
  /\ setterCalls = 0
  /\ prev = <<>>
  /\ caller = NoCaller

NextTerminating == build \/ traverse \/ break \/ Step

SpecTerminating == InitTerminating /\ [][NextTerminating]_vars /\ WF_vars(Step)

Running == stack # <<>>

\* The events of the given kinds logged for node n in the current call.
EventsAt(kinds, n) == {j \in EventsOf(kinds) : log[j].node = n}

HandledOnce ==
  /\ \A n \in Values :
       /\ Cardinality(EventsAt({"visit"}, n)) <= 1
       /\ Cardinality(EventsAt({"callback", "deny"}, n)) <= 1
       /\ Cardinality(EventsAt({"getNodes"}, n)) <= 1
  /\ \A j, k \in DOMAIN stack : stack[j].node = stack[k].node => j = k
  /\ Len(stack) <= Cardinality(Values)

-----------------------------------------------------------------------------
(* C26: every traverse call on the (finite, acyclic) tree ends, whatever   *)
(* maxDepth, maxNodes and break calls are in play, and within one call no  *)
(* node is entered, handed to callback or denyCallback, or asked for its   *)
(* children more than once.                                                *)
C26_Terminates == []HandledOnce /\ (Running ~> ~Running)

C26_Witness ==
  /\ Completed /\ ~Running
  /\ Cardinality(Walkable(root, startLevel)) >= 5
  /\ NodesOf({"visit"}) = Walkable(root, startLevel)
  /\ NodesOf({"getNodes"}) # {}

-----------------------------------------------------------------------------
(* C27: in one traverse call no node is handed to both callback and        *)
(* denyCallback. With a denyCallback configured, a node that passed the    *)
(* break, count and isNode checks and whose accept decision was taken gets *)
(* exactly one of the two: callback if accepted, denyCallback if not.      *)
(* Without a denyCallback no denyCallback invocation is made and a node    *)
(* that is not accepted gets neither.                                      *)
Deciding(n) ==
  \E k \in DOMAIN stack : stack[k].node = n /\ stack[k].pc \in {"accept", "callback", "deny"}

-----------------------------------------------------------------------------
(* C28: a traverse call made on the instance whose walk is in progress,    *)
(* from inside a callback of that walk, sets the instance's numNodes to 0  *)
(* and clears its break flag, which are the counters the outer walk goes   *)
(* on with, and leaves level as the outer walk has it: the inner walk      *)
(* evaluates its root at the outer walk's current level and every node     *)
(* below it that many levels deeper than a fresh walk would.               *)

\* The last call of traverse made on instance i from inside a callback.
LastReentry(i) ==
  LET ks == {k \in Reentries : log[k].inst = i}
  IN CHOOSE k \in ks : \A m \in ks : m <= k

\* The step is a call of traverse on the instance that is walking.
SameInstanceReentry ==
  /\ stack # <<>>
  /\ Len(stack') = Len(stack) + 1
  /\ Len(log') = Len(log) + 2
  /\ log'[Len(log')].e = "traverse"
  /\ log'[Len(log')].inst = Top.inst

\* The newest event, when it belongs to the walk of the latest such call,
\* has the level that call started with plus its node's depth below the
\* call's root.
InnerLevels ==
  (/\ log # <<>>
   /\ log[Len(log)].e \in {"visit", "callback", "deny"}
   /\ log[Len(log)].depth > 0) =>
    LET k == CHOOSE m \in Reentries : \A r \in Reentries : r <= m
        j == Len(log)
    IN (log[j].depth = log[k].depth /\ log[j].inst = log[k].inst)
         => log[j].level = log[k].level + DepthBelow(log[k].node, log[j].node)

C28_SharedCounters ==
  [][/\ SameInstanceReentry =>
          /\ trav'[Top.inst].numNodes = 0
          /\ ~trav'[Top.inst].break
          /\ trav'[Top.inst].level = trav[Top.inst].level
          /\ log'[Len(log')].level = trav[Top.inst].level
          /\ \A i \in DOMAIN trav : i # Top.inst => trav'[i] = trav[i]
     /\ Len(log') > Len(log) => InnerLevels']_vars

C28_Witness ==
  /\ Completed /\ CountLimited
  /\ Reentered(1) /\ ~Reentered(2)
  /\ log[LastReentry(1)].level > 0
  /\ Cardinality(OwnCallbacks) > Traversal.maxNodes.v
  /\ broke.at >= 0 /\ broke.at < LastReentry(1)
  /\ \E j \in DOMAIN log :
       j > LastReentry(1) /\ log[j].depth = 0 /\ log[j].e = "visit"

-----------------------------------------------------------------------------
(* C29: build() changes no field of the builder, whether it returns or     *)
(* throws; so a build() that follows it with no setter call in between     *)
(* succeeds or fails as it did and configures its Traversal from the same  *)
(* settings, limits, predicates and denyCallback included. The Traversal   *)
(* it returns is a new one: at level 0 with nothing counted and no break,  *)
(* whatever state the Traversal built before is in.                        *)
C29_BuildKeepsBuilder ==
  [][build =>
       /\ builder' = builder
       /\ BuildFailure(builder') = buildError'
       /\ buildError' = "none" =>
            /\ trav' = Keep(Built(builder'))
            /\ Settings(trav'[1]) = Settings(Built(builder))
            /\ trav'[1].level = 0 /\ trav'[1].numNodes = 0 /\ ~trav'[1].break]_vars

C29_Witness ==
  /\ Idle /\ ~Walked
  /\ buildError = "none"
  /\ setterCalls = 2
  /\ builder.denyCallback = "deny"
  /\ builder.maxNodes = Int_(1)
  /\ trav # <<>>
  /\ Settings(Traversal) = Settings(Built(builder))

-----------------------------------------------------------------------------
(* C30: with maxNodes 0, negative or NaN the count check stops nothing: a  *)
(* traverse call that returns without break() has invoked callback on      *)
(* every acceptable node in reach, no invocation of _traverse is turned    *)
(* away for the count, and numNodes grows past any such maxNodes; the      *)
(* count limits a walk only when maxNodes is a positive integer.           *)
Unlimiting == {Int_(0), Int_(0 - 1), NaN}

\* The children a getNodes call of the current traverse call returned that
\* are nodes and whose invocation of _traverse has begun and gone past the checks.
Checked ==
  {n \in Nodes : \E k \in DOMAIN stack : stack[k].node = n /\ stack[k].pc # "enter"}
    \cup {n \in Nodes : \E j \in EventsOf({"getNodes"}) :
            /\ n \in Range(getNodes(log[j].node))
            /\ \A k \in DOMAIN stack : stack[k].node # log[j].node}

C30_CountLimitOnlyPositive ==
  Walked =>
    /\ Traversal.maxNodes \in Unlimiting =>
         /\ (Completed /\ Unbroken) =>
              /\ NodesOf({"callback"}) = Acceptable
              /\ Traversal.numNodes = Cardinality(Acceptable)
         /\ (Unbroken /\ ~Thrown) => Checked \subseteq NodesOf({"visit"})
    /\ (Completed /\ Unbroken /\ Traversal.maxNodes \notin Unlimiting) =>
         Cardinality(EventsOf({"callback"}))
           = Min(Traversal.maxNodes.v, Cardinality(Acceptable))

C30_Witness ==
  /\ Completed /\ Unbroken
  /\ Traversal.maxNodes = NaN
  /\ builder.maxNodes = NaN
  /\ Cardinality(EventsOf({"callback"})) >= 3
  /\ Traversal.numNodes >= 3

-----------------------------------------------------------------------------
(* A use-site that hands the callback setters whatever it has: a function, *)
(* a value that is none (a string, say) or nothing at all (undefined).     *)
(* The setters store what they are given (lines 105-168).                  *)
NonFunctions == {"notAFunction", "undefined"}

setRecurseCallbackAny ==
  \E f \in UserRecursePredicates \cup NonFunctions :
    Setter([builder EXCEPT !.recurseCallback = f])

setAcceptCallbackAny ==
  \E f \in UserAcceptPredicates \cup NonFunctions :
    Setter([builder EXCEPT !.acceptCallback = f])

setDenyCallbackAny ==
  \E f \in UserDenyCallbacks \cup NonFunctions :
    Setter([builder EXCEPT !.denyCallback = f])

setCallbackAny ==
  \E f \in UserCallbacks \cup NonFunctions :
    /\ Idle
    /\ builder' = [builder EXCEPT !.callback = f]
    /\ ForgetWalk
    /\ UNCHANGED <<trav, stack, buildError, failed, setterCalls, caller>>

\* The builder as constructed, or after setRecurseTypes([]) and/or
\* setAcceptTypes([]).
TypeListCombinations ==
  { [NewBuilder EXCEPT !.recurseTypes = r, !.acceptTypes = a] :
      r \in {DEFAULT_RECURSE_TYPES, <<>>}, a \in {DEFAULT_ACCEPT_TYPES, <<>>} }

InitAnyValue ==
  /\ builder \in TypeListCombinations
  /\ trav = <<>>
  /\ stack = <<>>
  /\ log = <<>>
  /\ outcome = "none"
  /\ root = ""
  /\ startLevel = 0
  /\ stale = FALSE
  /\ broke = NotBroken
  /\ buildError = "none"
  /\ failed = <<>>
  /\ setterCalls = 0
  /\ prev = <<>>
  /\ caller = NoCaller

NextAnyValue ==
  \/ setRecurseCallbackAny \/ setAcceptCallbackAny
  \/ setCallbackAny \/ setDenyCallbackAny
  \/ build
  \/ traverse
  \/ Enter \/ Accept \/ InvokeCallback \/ Count \/ InvokeDeny
  \/ Recurse \/ Fetch \/ Loop \/ Leave

SpecAnyValue == InitAnyValue /\ [][NextAnyValue]_vars

\* The builder state b with every callback field that holds a non-function
\* cleared, as the clear setters would leave it.
Unset(b) ==
  [b EXCEPT !.recurseCallback = IF @ \in NonFunctions THEN "null" ELSE @,
            !.acceptCallback = IF @ \in NonFunctions THEN "null" ELSE @,
            !.callback = IF @ \in NonFunctions THEN "null" ELSE @,
            !.denyCallback = IF @ \in NonFunctions THEN "null" ELSE @]

\* No Traversal holds a non-function where it calls one, and one without a
\* denyCallback makes no denyCallback invocation.
CallsFunctionsOnly ==
  /\ \A i \in DOMAIN trav :
       /\ trav[i].callback \in UserCallbacks
       /\ trav[i].acceptCallback \in UserAcceptPredicates \cup {AcceptTypesClosure}
       /\ trav[i].recurseCallback \in UserRecursePredicates \cup {RecurseTypesClosure}
       /\ trav[i].denyCallback \in UserDenyCallbacks \cup {"false"}
  /\ (Walked /\ Traversal.denyCallback = "false") => NodesOf({"deny"}) = {}
  /\ (Walked /\ Traversal.acceptCallback = AcceptTypesClosure) =>
       \A n \in NodesOf({"callback"}) : isTypeOf(n, builder.acceptTypes)

-----------------------------------------------------------------------------
(* C31: build() treats a callback field that holds a non-function as it    *)
(* treats the field cleared: it throws the same error or returns the same  *)
(* Traversal. So a non-function callback gives "Missing callback."; a      *)
(* non-function predicate gives the type-list closure, and the             *)
(* missing-types error when that list is empty; a non-function             *)
(* denyCallback gives a Traversal whose walks invoke no denyCallback.      *)
C31_NonFunctionIsUnset ==
  [][/\ build =>
          /\ buildError' = BuildFailure(Unset(builder))
          /\ builder.callback \in NonFunctions =>
               (buildError' = "Missing callback." /\ trav' = trav)
          /\ (/\ builder.callback \in UserCallbacks
              /\ builder.recurseCallback \in NonFunctions
              /\ builder.recurseTypes = <<>>) => buildError' = "Missing recurse types."
          /\ (/\ builder.callback \in UserCallbacks
              /\ builder.recurseCallback \in NonFunctions \cup {"null"}
              /\ builder.recurseTypes # <<>>
              /\ builder.acceptCallback \in NonFunctions
              /\ builder.acceptTypes = <<>>) => buildError' = "Missing accept types."
          /\ buildError' = "none" =>
               /\ trav' = Keep(Built(Unset(builder)))
               /\ builder.recurseCallback \in NonFunctions =>
                    trav'[1].recurseCallback = RecurseTypesClosure
               /\ builder.acceptCallback \in NonFunctions =>
                    trav'[1].acceptCallback = AcceptTypesClosure
               /\ builder.denyCallback \in NonFunctions =>
                    trav'[1].denyCallback = "false"
     /\ CallsFunctionsOnly']_vars

C31_Witness ==
  /\ Completed
  /\ buildError = "Missing callback."
  /\ builder.callback \in NonFunctions
  /\ builder.denyCallback \in NonFunctions
  /\ builder.acceptCallback \in NonFunctions
  /\ Traversal.denyCallback = "false"
  /\ Traversal.acceptCallback = AcceptTypesClosure
  /\ NodesOf({"callback"}) # {}
  /\ NodesOf({"visit"}) \ NodesOf({"callback"}) # {}
  /\ NodesOf({"deny"}) = {}

====
